---- MODULE Spec2Model ----
(***************************************************************************)
(* Model of the AT Protocol OAuth bootstrap in src/main.py: the identity   *)
(* resolver, the DID-document / PDS / authorization-server metadata        *)
(* fetchers, the PKCE generators, the PAR client and the orchestrator      *)
(* main().                                                                 *)
(*                                                                         *)
(* Python values are tagged records [t |-> tag, <payload>]:                *)
(*   none, str (toks), int (n), list (items), dict (fields), rand (r).     *)
(* Each tag has a payload field of its own, so that two values of          *)
(* different types are always comparable.                                  *)
(* A str is a sequence of tokens; a token is a TLA+ string holding either  *)
(* one character or a run of characters the code never looks inside.       *)
(* Usernames are spelled one character per token, because the regular      *)
(* expressions read them character by character; "/" is always a token of  *)
(* its own, because rstrip('/') reads it.                                  *)
(***************************************************************************)
EXTENDS Integers, Sequences, FiniteSets, TLC

VARIABLES
    pc,             \* position of the run: main()'s next step, or a direct call
    result,         \* what main() reported: "running", "True", "False", "exception"
    exc,            \* class of the exception that propagated, "" when none
    username,       \* os.getenv("USERNAME")
    app_url,        \* os.getenv("APP_URL")
    user_did,       \* main()'s locals, Unset until assigned
    did_document,
    pds_url,
    pds_metadata,
    auth_servers,
    auth_metadata,
    auth_endpoint,
    token_endpoint,
    par_endpoint,
    oauth_state,
    code_verifier,
    code_challenge,
    request_uri,
    expires_in,
    auth_url,
    length,         \* argument of a direct generate_code_verifier call
    drawn,          \* number of secrets.token_* draws made so far
    net             \* the HTTP exchanges so far, in order: [req, resp]

vars == <<pc, result, exc, username, app_url, user_did, did_document, pds_url,
          pds_metadata, auth_servers, auth_metadata, auth_endpoint,
          token_endpoint, par_endpoint, oauth_state, code_verifier,
          code_challenge, request_uri, expires_in, auth_url, length, drawn, net>>

----------------------------------------------------------------------------
(* Bounds of the model *)

\* number of distinct values the random source can produce
NSeeds == 2
\* longest authorization_servers list the PDS metadata may carry
MaxServers == 2
\* how far outside [43,128] the lengths given to generate_code_verifier go
LenMargin == 3

(* Program constants *)

VerifierMinLen == 43
VerifierMaxLen == 128
VerifierDefaultLen == 128
StateBytes == 32
LabelMidMax == 61
DidIdMaxLen == 2048

----------------------------------------------------------------------------
(* Python values *)

None == [t |-> "none"]
Unset == [t |-> "unset"]
BadJson == [t |-> "badjson"]
Str(toks) == [t |-> "str", toks |-> toks]
PyInt(n) == [t |-> "int", n |-> n]
List(s) == [t |-> "list", items |-> s]
Dict(f) == [t |-> "dict", fields |-> f]
EmptyDict == Dict([k \in {} |-> None])

\* Python truthiness, as used by `if x:` and `not x`
Truthy(x) ==
    CASE x.t = "none" -> FALSE
      [] x.t = "str"  -> Len(x.toks) > 0
      [] x.t = "list" -> Len(x.items) > 0
      [] x.t = "dict" -> DOMAIN x.fields # {}
      [] x.t = "int"  -> x.n # 0
      [] x.t = "rand" -> x.r.len > 0
      [] OTHER        -> FALSE

\* dict.get(key): the value, None when the key is absent
Get(d, key) == IF key \in DOMAIN d.fields THEN d.fields[key] ELSE None

RECURSIVE Flat(_)
\* the characters of a token sequence as one string
Flat(toks) ==
    IF toks = <<>> THEN ""
    ELSE IF Len(toks) = 1 THEN toks[1]
    ELSE LET h == Len(toks) \div 2 IN
         Flat(SubSeq(toks, 1, h)) \o Flat(SubSeq(toks, h + 1, Len(toks)))

\* f"{x}" of a value
Fmt(x) == IF x.t = "str" THEN Flat(x.toks) ELSE IF x.t = "none" THEN "None" ELSE "?"

RECURSIVE RStripSlash(_)
\* str.rstrip('/')
RStripSlash(toks) ==
    IF toks # <<>> /\ toks[Len(toks)] = "/"
    THEN RStripSlash(SubSeq(toks, 1, Len(toks) - 1))
    ELSE toks

\* str.split(sep): the parts between the separators, empty parts included
Split(s, sep) ==
    LET cuts == {0} \cup {i \in 1..Len(s) : s[i] = sep} \cup {Len(s) + 1}
        Cut(k) == CHOOSE c \in cuts : Cardinality({d \in cuts : d < c}) = k
    IN  [k \in 1..(Cardinality(cuts) - 1) |-> SubSeq(s, Cut(k - 1) + 1, Cut(k) - 1)]

RECURSIVE Join(_, _)
\* sep.join(parts)
Join(parts, sep) ==
    IF parts = <<>> THEN <<>>
    ELSE IF Len(parts) = 1 THEN parts[1]
    ELSE parts[1] \o <<sep>> \o Join(Tail(parts), sep)

\* c * n
Rep(c, n) == [i \in 1..n |-> c]

----------------------------------------------------------------------------
(* The grammars: HANDLE_REGEX and DID_RE *)

Lower == {"a","b","c","d","e","f","g","h","i","j","k","l","m",
          "n","o","p","q","r","s","t","u","v","w","x","y","z"}
Upper == {"A","B","C","D","E","F","G","H","I","J","K","L","M",
          "N","O","P","Q","R","S","T","U","V","W","X","Y","Z"}
Digit == {"0","1","2","3","4","5","6","7","8","9"}
Letter == Lower \cup Upper
AlNum == Letter \cup Digit
AlNumHyphen == AlNum \cup {"-"}
DidIdChar == AlNum \cup {".", "_", "%", "-"}

\* ([a-zA-Z0-9-]{0,61}[a-zA-Z0-9])? matched against the whole of s
LabelTail(s) ==
    \/ s = <<>>
    \/ /\ Len(s) - 1 <= LabelMidMax
       /\ \A i \in 1..(Len(s) - 1) : s[i] \in AlNumHyphen
       /\ s[Len(s)] \in AlNum

\* [a-zA-Z0-9]([a-zA-Z0-9-]{0,61}[a-zA-Z0-9])? matched against the whole of s
Label(s) == Len(s) >= 1 /\ s[1] \in AlNum /\ LabelTail(Tail(s))

\* [a-zA-Z]([a-zA-Z0-9-]{0,61}[a-zA-Z0-9])? matched against the whole of s
TopLabel(s) == Len(s) >= 1 /\ s[1] \in Letter /\ LabelTail(Tail(s))

\* The handle pattern between ^ and $, matched against the whole of s.
\* No label holds a ".", so the labels are the parts between the dots.
HandlePattern(s) ==
    LET parts == Split(s, ".") IN
    /\ Len(parts) >= 2
    /\ \A i \in 1..(Len(parts) - 1) : Label(parts[i])
    /\ TopLabel(parts[Len(parts)])

\* The DID pattern between ^ and $, matched against the whole of s.
DidPattern(s) ==
    /\ Len(s) >= 4
    /\ SubSeq(s, 1, 4) = <<"d", "i", "d", ":">>
    /\ LET parts == Split(SubSeq(s, 5, Len(s)), ":") IN
       /\ Len(parts) = 2
       /\ Len(parts[1]) >= 1
       /\ \A i \in 1..Len(parts[1]) : parts[1][i] \in Lower
       /\ Len(parts[2]) >= 1 /\ Len(parts[2]) <= DidIdMaxLen
       /\ \A i \in 1..Len(parts[2]) : parts[2][i] \in DidIdChar
    /\ s[Len(s)] # ":"

\* Python's "$" matches at the end of the string and also just before a
\* newline that is the string's last character.
DollarCut(s) ==
    IF Len(s) >= 1 /\ s[Len(s)] = "\n" THEN {s, SubSeq(s, 1, Len(s) - 1)} ELSE {s}

\* re.match(HANDLE_REGEX, username)
MatchHandle(s) == \E m \in DollarCut(s) : HandlePattern(m)

\* re.match(DID_RE, username)
MatchDid(s) == \E m \in DollarCut(s) : DidPattern(m)

----------------------------------------------------------------------------
(* HTTP: requests, responses, and what httpx raises *)

\* A response: status 0 stands for a transport failure (httpx.RequestError);
\* body is the parsed JSON value, or BadJson when the body is not valid JSON.
Response(status, body) == [status |-> status, body |-> body]
TransportError == Response(0, None)

Request(method, url, by, idx, data) ==
    [method |-> method, url |-> url, by |-> by, idx |-> idx, data |-> data]

Exchange(req, resp) == [req |-> req, resp |-> resp]

IsSuccess(status) == status \div 100 = 2

\* httpx.get/post(...); response.raise_for_status(); response.json():
\* the exception class raised, "" when the parsed body is obtained
FetchError(resp) ==
    IF resp.status = 0 THEN "RequestError"
    ELSE IF ~IsSuccess(resp.status) THEN "HTTPStatusError"
    ELSE IF resp.body = BadJson THEN "JSONDecodeError"
    ELSE ""

\* the exception classes each component's except clauses catch
Caught == {"HTTPStatusError", "RequestError", "JSONDecodeError"}

\* What a component call yields: its return value, the exception that
\* propagated out of it ("" when it returned), and its HTTP exchanges.
Returned(ret, io) == [ret |-> ret, exc |-> "", io |-> io]
Raised(e, io) == [ret |-> None, exc |-> e, io |-> io]

----------------------------------------------------------------------------
(* 4.1 resolve_identity *)

ResolveUrl(uname) ==
    LET parts == Split(uname, ".")
        domain_tld == Join(Tail(parts), ".")
    IN  <<"https://">> \o domain_tld
          \o <<"/xrpc/com.atproto.identity.resolveHandle?handle=">> \o uname

resolve_identity(uname, resp) ==
    IF MatchHandle(uname.toks) THEN
        LET parts == Split(uname.toks, ".") IN
        IF Len(parts) >= 2 THEN
            LET req == Request("GET", Flat(ResolveUrl(uname.toks)), "resolve_identity", 0, None)
                io == <<Exchange(req, resp)>>
                err == FetchError(resp)
            IN  IF err \in Caught THEN Returned(None, io)
                ELSE IF resp.body.t # "dict" THEN Raised("AttributeError", io)
                ELSE LET did == Get(resp.body, "did") IN
                     IF Truthy(did) THEN Returned(did, io) ELSE Returned(None, io)
        ELSE Returned(None, <<>>)
    ELSE IF MatchDid(uname.toks) THEN Returned(uname, <<>>)
    ELSE Returned(None, <<>>)

----------------------------------------------------------------------------
(* 4.2 get_did_document *)

\* `"service" in did_document`: "" when it evaluates, to TRUE or FALSE, else
\* the exception. A str body is not among the bodies of this model.
ServiceInError(doc) ==
    IF doc.t \in {"dict", "list"} THEN "" ELSE "TypeError"

ServiceIn(doc) ==
    IF doc.t = "dict" THEN "service" \in DOMAIN doc.fields
    ELSE \E i \in 1..Len(doc.items) : doc.items[i] = Str(<<"service">>)

\* the last entry instead of the first
LastServiceIndex(service) == Len(service.items)

\* which entry of the service list holds the PDS
ServiceIndex(service) == 1

\* did_document["service"][0].get("serviceEndpoint"), after len(...) > 0
FirstServiceEndpoint(doc) ==
    LET service == doc.fields["service"] IN
    IF doc.t # "dict" THEN Raised("TypeError", <<>>)
    ELSE IF service.t \notin {"list", "str", "dict"} THEN Raised("TypeError", <<>>)
    ELSE IF ~Truthy(service) THEN Returned(None, <<>>)
    ELSE IF service.t = "dict" THEN Raised("KeyError", <<>>)
    ELSE IF service.t = "str" THEN Raised("AttributeError", <<>>)
    ELSE IF service.items[ServiceIndex(service)].t # "dict" THEN Raised("AttributeError", <<>>)
    ELSE Returned(Get(service.items[ServiceIndex(service)], "serviceEndpoint"), <<>>)

get_did_document(did, resp) ==
    LET url == "https://plc.directory/" \o Fmt(did)
        req == Request("GET", url, "get_did_document", 0, None)
        io == <<Exchange(req, resp)>>
        err == FetchError(resp)
        doc == resp.body
    IN  IF err \in Caught THEN Returned(<<None, None>>, io)
        ELSE IF ServiceInError(doc) # "" THEN Raised(ServiceInError(doc), io)
        ELSE IF ~ServiceIn(doc) THEN Returned(<<doc, None>>, io)
        ELSE LET ep == FirstServiceEndpoint(doc) IN
             IF ep.exc # "" THEN Raised(ep.exc, io)
             ELSE IF Truthy(ep.ret) THEN Returned(<<doc, ep.ret>>, io)
             ELSE Returned(<<doc, None>>, io)

----------------------------------------------------------------------------
(* 4.3 get_pds_metadata and 4.4 extract_auth_server *)

\* a fetch that asks a second time when the first answer is an error
get_pds_metadata_retrying(url, resp) ==
    IF ~Truthy(url) THEN Returned(None, <<>>)
    ELSE IF url.t # "str" THEN Raised("AttributeError", <<>>)
    ELSE
        LET metadata_url == RStripSlash(url.toks) \o <<"/.well-known/oauth-protected-resource">>
            req == Request("GET", Flat(metadata_url), "get_pds_metadata", 0, None)
        IN  IF FetchError(resp) \in Caught
            THEN Returned(None, <<Exchange(req, resp), Exchange(req, resp)>>)
            ELSE Returned(resp.body, <<Exchange(req, resp)>>)

get_pds_metadata(url, resp) ==
    IF ~Truthy(url) THEN Returned(None, <<>>)
    ELSE IF url.t # "str" THEN Raised("AttributeError", <<>>)
    ELSE
        LET metadata_url == RStripSlash(url.toks) \o <<"/.well-known/oauth-protected-resource">>
            req == Request("GET", Flat(metadata_url), "get_pds_metadata", 0, None)
            io == <<Exchange(req, resp)>>
        IN  IF FetchError(resp) \in Caught THEN Returned(None, io)
            ELSE Returned(resp.body, io)

extract_auth_server(metadata) ==
    IF ~Truthy(metadata) THEN Returned(None, <<>>)
    ELSE IF metadata.t # "dict" THEN Raised("AttributeError", <<>>)
    ELSE LET servers == Get(metadata, "authorization_servers") IN
         IF ~Truthy(servers) \/ servers.t # "list" \/ Len(servers.items) = 0
         THEN Returned(None, <<>>)
         ELSE Returned(servers, <<>>)

----------------------------------------------------------------------------
(* 4.5 get_auth_server_metadata *)

AuthServerUrl(auth_server) ==
    RStripSlash(auth_server.toks) \o <<"/.well-known/oauth-authorization-server">>

\* a check that forgets the token endpoint
AuthorizationEndpointPresent(metadata) == Truthy(Get(metadata, "authorization_endpoint"))

\* `if auth_endpoint and token_endpoint`
RequiredEndpointsPresent(metadata) ==
    Truthy(Get(metadata, "authorization_endpoint")) /\ Truthy(Get(metadata, "token_endpoint"))

\* the candidate tried after candidate i did not qualify (`continue`)
NextCandidate(i) == i + 1

RECURSIVE AuthServerLoop(_, _, _, _)
\* `for auth_server in auth_servers:` from candidate i on; resps[k] is what
\* candidate k answers if it is asked, io the exchanges made so far
AuthServerLoop(servers, resps, i, io) ==
    IF i > Len(servers) THEN Returned(<<None, None, None, None>>, io)
    ELSE IF servers[i].t # "str" THEN Raised("AttributeError", io)
    ELSE
        LET req == Request("GET", Flat(AuthServerUrl(servers[i])),
                           "get_auth_server_metadata", i, None)
            io2 == Append(io, Exchange(req, resps[i]))
            metadata == resps[i].body
        IN  IF FetchError(resps[i]) \in Caught
            THEN AuthServerLoop(servers, resps, NextCandidate(i), io2)
            ELSE IF metadata.t # "dict" THEN Raised("AttributeError", io2)
            ELSE IF RequiredEndpointsPresent(metadata)
            THEN Returned(<<metadata,
                            Get(metadata, "authorization_endpoint"),
                            Get(metadata, "token_endpoint"),
                            Get(metadata, "pushed_authorization_request_endpoint")>>, io2)
            ELSE AuthServerLoop(servers, resps, NextCandidate(i), io2)

get_auth_server_metadata(servers, resps) ==
    IF ~Truthy(servers) \/ servers.t # "list"
    THEN Returned(<<None, None, None, None>>, <<>>)
    ELSE AuthServerLoop(servers.items, resps, 1, <<>>)

----------------------------------------------------------------------------
(* 4.6 generate_oauth_state, generate_code_verifier, generate_code_challenge *)

\* A random string: its alphabet, its length in characters, and the value
\* the random source produced (seed).
Rand(kind, len, seed) == [t |-> "rand", r |-> [kind |-> kind, len |-> len, seed |-> seed]]

\* What a generator yields: its value, the exception raised, and the number
\* of secrets.token_* draws it made.
Generated(ret, draws) == [ret |-> ret, exc |-> "", draws |-> draws]
GenRaised(e, draws) == [ret |-> None, exc |-> e, draws |-> draws]

\* secrets.token_hex(32): two hex digits per byte
generate_oauth_state(seed) == Generated(Rand("hex", 2 * StateBytes, seed), 1)

\* the number of random bytes drawn for a verifier of the given length
VerifierBytes(len) == (len * 3) \div 4

\* len(base64.urlsafe_b64encode(n bytes)): groups of 3 bytes, 4 characters each
B64EncodedLen(n) == 4 * ((n + 2) \div 3)
\* the "=" characters at its end, which rstrip("=") removes
B64PadLen(n) == (3 - (n % 3)) % 3

Min(a, b) == IF a < b THEN a ELSE b

generate_code_verifier(len, seed) ==
    IF len < VerifierMinLen \/ len > VerifierMaxLen THEN GenRaised("ValueError", 0)
    ELSE LET n == VerifierBytes(len)
             stripped == B64EncodedLen(n) - B64PadLen(n)
         IN  Generated(Rand("b64url", Min(stripped, len), seed), 1)

\* a challenge that is the verifier itself (the "plain" method)
plain_code_challenge(verifier) == verifier

\* base64url(sha256(code_verifier)) without padding: one value per verifier
generate_code_challenge(verifier) == [t |-> "s256", of |-> verifier.r]

----------------------------------------------------------------------------
(* 4.7 send_par_request *)

ParParams(challenge, state, login_hint, client_id, redirect_uri, scope) ==
    LET base == [response_type |-> "code", code_challenge_method |-> "S256",
                 scope |-> scope, client_id |-> client_id,
                 redirect_uri |-> redirect_uri, code_challenge |-> challenge,
                 state |-> state]
    IN  IF Truthy(login_hint)
        THEN [t |-> "form", params |-> [k \in DOMAIN base \cup {"login_hint"} |->
                                     IF k = "login_hint" THEN login_hint ELSE base[k]]]
        ELSE [t |-> "form", params |-> base]

\* a check that lets the empty string through
ParEndpointIsNone(endpoint) == endpoint = None

\* `if not par_endpoint:` at the head of send_par_request
ParEndpointMissing(endpoint) == ~Truthy(endpoint)

send_par_request(endpoint, challenge, state, login_hint, client_id, redirect_uri, scope, resp) ==
    IF ParEndpointMissing(endpoint) THEN Returned(<<None, None>>, <<>>)
    ELSE
        LET params == ParParams(challenge, state, login_hint, client_id, redirect_uri, scope)
            req == Request("POST", Fmt(endpoint), "send_par_request", 0, params)
            io == <<Exchange(req, resp)>>
        IN  IF FetchError(resp) \in Caught THEN Returned(<<None, None>>, io)
            ELSE IF resp.body.t # "dict" THEN Raised("AttributeError", io)
            ELSE IF Truthy(Get(resp.body, "request_uri"))
            THEN Returned(<<Get(resp.body, "request_uri"), Get(resp.body, "expires_in")>>, io)
            ELSE Returned(<<None, None>>, io)

----------------------------------------------------------------------------
(* The environment: the configuration and the servers' answers *)

UAlice == <<"a","l","i","c","e",".","e","x","a","m","p","l","e",".","c","o","m">>
UDidPlc == <<"d","i","d",":","p","l","c",":","a","b","c","1","2","3">>

Usernames ==
    { Str(UAlice),
      Str(UAlice \o <<"\n">>),
      Str(Rep("a", LabelMidMax + 2) \o <<".", "c", "o", "m">>),
      Str(Rep("a", LabelMidMax + 3) \o <<".", "c", "o", "m">>),
      Str(<<"l","o","c","a","l","h","o","s","t">>),
      Str(<<"-", "a", ".", "c", "o", "m">>),
      Str(UDidPlc),
      Str(UDidPlc \o <<"\n">>),
      Str(<<"d","i","d",":","P","L","C",":","a","b","c">>),
      Str(<<"d","i","d",":","p","l","c",":","a",":","b">>),
      Str(UAlice \o <<" ">>) }

AppUrls == { Str(<<"app.example.com">>) }

Did1 == Str(<<"did:plc:abc123">>)
Pds1 == Str(<<"https://pds.example.org">>)
Pds1Slash == Str(<<"https://pds.example.org", "/">>)
Pds2 == Str(<<"https://pds2.example.org">>)
As1 == Str(<<"https://auth.example.org", "/">>)
As2 == Str(<<"https://auth2.example.org">>)
AuthEp == Str(<<"https://auth.example.org", "/", "oauth", "/", "authorize">>)
TokenEp == Str(<<"https://auth.example.org", "/", "oauth", "/", "token">>)
ParEp == Str(<<"https://auth.example.org", "/", "oauth", "/", "par">>)
RequestUri == Str(<<"urn:ietf:params:oauth:request_uri:abc">>)
Scope == Str(<<"atproto transition:generic">>)

ErrorBody == Dict([error |-> Str(<<"invalid_request">>)])

\* transport failure, non-2xx status (error body parseable or not), and a
\* 2xx answer whose body is not valid JSON
ErrorResponses ==
    { TransportError, Response(400, ErrorBody), Response(500, BadJson),
      Response(200, BadJson) }

Ok(body) == Response(200, body)

ResolveResponses ==
    ErrorResponses \cup
    { Ok(Dict([did |-> Did1])), Ok(Dict([did |-> Str(<<>>)])), Ok(EmptyDict),
      Ok(List(<<>>)), Ok(None) }

Svc(ep) == Dict([type |-> Str(<<"AtprotoPersonalDataServer">>), serviceEndpoint |-> ep])
SvcNoEndpoint == Dict([type |-> Str(<<"Other">>)])

DidDocResponses ==
    ErrorResponses \cup
    { Response(404, BadJson), Response(410, BadJson),
      Ok(Dict([id |-> Did1, service |-> List(<<Svc(Pds1)>>)])),
      Ok(Dict([id |-> Did1, service |-> List(<<Svc(Pds1Slash), Svc(Pds2)>>)])),
      Ok(Dict([id |-> Did1, service |-> List(<<Svc(Pds2), Svc(Pds1)>>)])),
      Ok(Dict([id |-> Did1, service |-> List(<<SvcNoEndpoint, Svc(Pds1)>>)])),
      Ok(Dict([id |-> Did1, service |-> List(<<Svc(Str(<<>>)), Svc(Pds1)>>)])),
      Ok(Dict([id |-> Did1, service |-> List(<<>>)])),
      Ok(Dict([id |-> Did1])),
      Ok(Dict([id |-> Did1, service |-> None])),
      Ok(Dict([id |-> Did1, service |-> List(<<Str(<<"x">>)>>)])),
      Ok(EmptyDict), Ok(List(<<>>)), Ok(None), Ok(PyInt(1)) }

RECURSIVE SeqsUpTo(_, _)
\* the sequences over S of length 0..n
SeqsUpTo(S, n) ==
    IF n = 0 THEN { <<>> }
    ELSE LET shorter == SeqsUpTo(S, n - 1) IN
         shorter \cup { Append(q, x) : q \in shorter, x \in S }

ServerLists == SeqsUpTo({As1, As2}, MaxServers)

PdsMetadataResponses ==
    ErrorResponses \cup
    { Ok(Dict([resource |-> Pds1, authorization_servers |-> List(l)])) : l \in ServerLists } \cup
    { Ok(Dict([resource |-> Pds1, authorization_servers |-> List(<<None>>)])),
      Ok(Dict([resource |-> Pds1, authorization_servers |-> As1])),
      Ok(Dict([resource |-> Pds1])),
      Ok(EmptyDict), Ok(List(<<PyInt(1)>>)), Ok(None) }

AuthServerResponses ==
    { TransportError, Response(500, BadJson), Response(200, BadJson),
      Ok(Dict([issuer |-> As1, authorization_endpoint |-> AuthEp, token_endpoint |-> TokenEp,
               pushed_authorization_request_endpoint |-> ParEp])),
      Ok(Dict([issuer |-> As2, authorization_endpoint |-> AuthEp, token_endpoint |-> TokenEp])),
      Ok(Dict([issuer |-> As1, authorization_endpoint |-> AuthEp,
               pushed_authorization_request_endpoint |-> ParEp])),
      Ok(List(<<>>)) }

ParResponses ==
    ErrorResponses \cup
    { Response(201, Dict([request_uri |-> RequestUri, expires_in |-> PyInt(90)])),
      Ok(Dict([request_uri |-> RequestUri])),
      Ok(Dict([expires_in |-> PyInt(90)])),
      Ok(Dict([request_uri |-> Str(<<>>), expires_in |-> PyInt(90)])),
      Ok(List(<<>>)) }

Seeds == 1..NSeeds

----------------------------------------------------------------------------
(* 4.8 main: the orchestrator, one action per step *)

FixedClientMetadataUrl == "https://madrilenyer.neocities.org/bsky/oauth/client-metadata.json"

\* columns of indentation on the continuation lines of the auth_url literal
ContinuationIndent == 12

ClientId(app) == Str(<<"https://">> \o app.toks \o <<"/oauth/client-metadata.json">>)
RedirectUri(app) == Str(<<"https://">> \o app.toks \o <<"/oauth/callback/">>)

\* The f-string of the authorization URL. A backslash-newline inside the
\* literal joins the lines and keeps the next line's leading blanks.
BuildAuthUrl(endpoint, uri) ==
    Str(<<Fmt(endpoint), "?">> \o Rep(" ", ContinuationIndent)
        \o <<"client_id=", FixedClientMetadataUrl>> \o Rep(" ", ContinuationIndent)
        \o <<"&request_uri=", Fmt(uri)>>)

\* main()'s checks of what each step returned
ResolveFailed(did) == ~Truthy(did)
\* a check that forgets the PDS URL
DidDocFailedDocumentOnly(doc, pds) == ~Truthy(doc)
DidDocFailed(doc, pds) == ~Truthy(doc) \/ ~Truthy(pds)
PdsMetadataFailed(metadata) == ~Truthy(metadata)
ExtractFailed(servers) == ~Truthy(servers)
AuthMetadataFailed(metadata) == ~Truthy(metadata)
ParEndpointAvailable(endpoint) == Truthy(endpoint)
ParSucceeded(uri) == Truthy(uri)

\* How a step of main() ends: an exception e propagates out of main(), or
\* the step's result is "not found" and main() returns False, or main() goes on.
StepEnds(e, failed, next) ==
    /\ exc' = e
    /\ pc' = IF e # "" THEN "raised" ELSE IF failed THEN "done" ELSE next
    /\ result' = IF e # "" THEN "exception" ELSE IF failed THEN "False" ELSE result

Keep(old, e, new) == IF e # "" THEN old ELSE new

MainResolve ==
    /\ pc = "resolve"
    /\ \E resp \in ResolveResponses :
          LET r == resolve_identity(username, resp) IN
          /\ net' = net \o r.io
          /\ user_did' = Keep(user_did, r.exc, r.ret)
          /\ StepEnds(r.exc, ResolveFailed(r.ret), "did_doc")
    /\ UNCHANGED <<username, app_url, did_document, pds_url, pds_metadata, auth_servers,
                   auth_metadata, auth_endpoint, token_endpoint, par_endpoint, oauth_state,
                   code_verifier, code_challenge, request_uri, expires_in, auth_url,
                   length, drawn>>

MainDidDocument ==
    /\ pc = "did_doc"
    /\ \E resp \in DidDocResponses :
          LET r == get_did_document(user_did, resp) IN
          /\ net' = net \o r.io
          /\ did_document' = Keep(did_document, r.exc, r.ret[1])
          /\ pds_url' = Keep(pds_url, r.exc, r.ret[2])
          /\ StepEnds(r.exc, DidDocFailed(r.ret[1], r.ret[2]), "pds_metadata")
    /\ UNCHANGED <<username, app_url, user_did, pds_metadata, auth_servers,
                   auth_metadata, auth_endpoint, token_endpoint, par_endpoint, oauth_state,
                   code_verifier, code_challenge, request_uri, expires_in, auth_url,
                   length, drawn>>

MainPdsMetadata ==
    /\ pc = "pds_metadata"
    /\ \E resp \in PdsMetadataResponses :
          LET r == get_pds_metadata(pds_url, resp) IN
          /\ net' = net \o r.io
          /\ pds_metadata' = Keep(pds_metadata, r.exc, r.ret)
          /\ StepEnds(r.exc, PdsMetadataFailed(r.ret), "extract")
    /\ UNCHANGED <<username, app_url, user_did, did_document, pds_url, auth_servers,
                   auth_metadata, auth_endpoint, token_endpoint, par_endpoint, oauth_state,
                   code_verifier, code_challenge, request_uri, expires_in, auth_url,
                   length, drawn>>

MainExtract ==
    /\ pc = "extract"
    /\ LET r == extract_auth_server(pds_metadata) IN
          /\ auth_servers' = Keep(auth_servers, r.exc, r.ret)
          /\ StepEnds(r.exc, ExtractFailed(r.ret), "auth_metadata")
    /\ UNCHANGED <<username, app_url, user_did, did_document, pds_url, pds_metadata,
                   auth_metadata, auth_endpoint, token_endpoint, par_endpoint, oauth_state,
                   code_verifier, code_challenge, request_uri, expires_in, auth_url,
                   length, drawn, net>>

MainAuthServerMetadata ==
    /\ pc = "auth_metadata"
    /\ \E resps \in [1..Len(auth_servers.items) -> AuthServerResponses] :
          LET r == get_auth_server_metadata(auth_servers, resps) IN
          /\ net' = net \o r.io
          /\ auth_metadata' = Keep(auth_metadata, r.exc, r.ret[1])
          /\ auth_endpoint' = Keep(auth_endpoint, r.exc, r.ret[2])
          /\ token_endpoint' = Keep(token_endpoint, r.exc, r.ret[3])
          /\ par_endpoint' = Keep(par_endpoint, r.exc, r.ret[4])
          /\ StepEnds(r.exc, AuthMetadataFailed(r.ret[1]), "state")
    /\ UNCHANGED <<username, app_url, user_did, did_document, pds_url, pds_metadata,
                   auth_servers, oauth_state, code_verifier, code_challenge, request_uri,
                   expires_in, auth_url, length, drawn>>

MainState ==
    /\ pc = "state"
    /\ \E seed \in Seeds :
          LET g == generate_oauth_state(seed) IN
          /\ oauth_state' = g.ret
          /\ drawn' = drawn + g.draws
    /\ pc' = "verifier"
    /\ UNCHANGED <<result, exc, username, app_url, user_did, did_document, pds_url,
                   pds_metadata, auth_servers, auth_metadata, auth_endpoint, token_endpoint,
                   par_endpoint, code_verifier, code_challenge, request_uri, expires_in,
                   auth_url, length, net>>

MainVerifier ==
    /\ pc = "verifier"
    /\ \E seed \in Seeds :
          LET g == generate_code_verifier(length, seed) IN
          /\ code_verifier' = Keep(code_verifier, g.exc, g.ret)
          /\ drawn' = drawn + g.draws
          /\ StepEnds(g.exc, FALSE, "challenge")
    /\ UNCHANGED <<username, app_url, user_did, did_document, pds_url, pds_metadata,
                   auth_servers, auth_metadata, auth_endpoint, token_endpoint, par_endpoint,
                   oauth_state, code_challenge, request_uri, expires_in, auth_url,
                   length, net>>

MainChallenge ==
    /\ pc = "challenge"
    /\ code_challenge' = generate_code_challenge(code_verifier)
    /\ pc' = "par"
    /\ UNCHANGED <<result, exc, username, app_url, user_did, did_document, pds_url,
                   pds_metadata, auth_servers, auth_metadata, auth_endpoint, token_endpoint,
                   par_endpoint, oauth_state, code_verifier, request_uri, expires_in,
                   auth_url, length, drawn, net>>

\* lines 531-560: the PAR request, the authorization URL, the verdict
MainPar ==
    /\ pc = "par"
    /\ IF ParEndpointAvailable(par_endpoint)
       THEN \E resp \in ParResponses :
               LET r == send_par_request(par_endpoint, code_challenge, oauth_state, username,
                                         ClientId(app_url), RedirectUri(app_url), Scope, resp)
               IN
               /\ net' = net \o r.io
               /\ request_uri' = Keep(request_uri, r.exc, r.ret[1])
               /\ expires_in' = Keep(expires_in, r.exc, r.ret[2])
               /\ exc' = r.exc
               /\ pc' = IF r.exc # "" THEN "raised" ELSE "done"
               /\ result' = IF r.exc # "" THEN "exception"
                            ELSE IF ParSucceeded(r.ret[1]) THEN "True" ELSE "False"
               /\ auth_url' = IF r.exc = "" /\ ParSucceeded(r.ret[1])
                              THEN BuildAuthUrl(auth_endpoint, r.ret[1]) ELSE auth_url
       ELSE /\ pc' = "done"
            /\ result' = "False"
            /\ UNCHANGED <<exc, request_uri, expires_in, auth_url, net>>
    /\ UNCHANGED <<username, app_url, user_did, did_document, pds_url, pds_metadata,
                   auth_servers, auth_metadata, auth_endpoint, token_endpoint, par_endpoint,
                   oauth_state, code_verifier, code_challenge, length, drawn>>

Init ==
    /\ pc = "resolve"
    /\ result = "running"
    /\ exc = ""
    /\ username \in Usernames
    /\ app_url \in AppUrls
    /\ user_did = Unset /\ did_document = Unset /\ pds_url = Unset
    /\ pds_metadata = Unset /\ auth_servers = Unset /\ auth_metadata = Unset
    /\ auth_endpoint = Unset /\ token_endpoint = Unset /\ par_endpoint = Unset
    /\ oauth_state = Unset /\ code_verifier = Unset /\ code_challenge = Unset
    /\ request_uri = Unset /\ expires_in = Unset /\ auth_url = Unset
    /\ length = VerifierDefaultLen
    /\ drawn = 0
    /\ net = <<>>

Next ==
    \/ MainResolve
    \/ MainDidDocument
    \/ MainPdsMetadata
    \/ MainExtract
    \/ MainAuthServerMetadata
    \/ MainState
    \/ MainVerifier
    \/ MainChallenge
    \/ MainPar

Spec == Init /\ [][Next]_vars

----------------------------------------------------------------------------
(* Direct calls of single components *)

CallGenerateCodeVerifier ==
    /\ pc = "call_verifier"
    /\ \E seed \in Seeds :
          LET g == generate_code_verifier(length, seed) IN
          /\ code_verifier' = Keep(code_verifier, g.exc, g.ret)
          /\ drawn' = drawn + g.draws
          /\ exc' = g.exc
          /\ pc' = IF g.exc # "" THEN "raised" ELSE "returned"
    /\ UNCHANGED <<result, username, app_url, user_did, did_document, pds_url, pds_metadata,
                   auth_servers, auth_metadata, auth_endpoint, token_endpoint, par_endpoint,
                   oauth_state, code_challenge, request_uri, expires_in, auth_url,
                   length, net>>

VerifierLengths == (VerifierMinLen - LenMargin)..(VerifierMaxLen + LenMargin)

VerifierInit ==
    /\ pc = "call_verifier"
    /\ result = "running"
    /\ exc = ""
    /\ length \in VerifierLengths
    /\ username = Unset /\ app_url = Unset
    /\ user_did = Unset /\ did_document = Unset /\ pds_url = Unset
    /\ pds_metadata = Unset /\ auth_servers = Unset /\ auth_metadata = Unset
    /\ auth_endpoint = Unset /\ token_endpoint = Unset /\ par_endpoint = Unset
    /\ oauth_state = Unset /\ code_verifier = Unset /\ code_challenge = Unset
    /\ request_uri = Unset /\ expires_in = Unset /\ auth_url = Unset
    /\ drawn = 0
    /\ net = <<>>

VerifierNext == CallGenerateCodeVerifier

VerifierSpec == VerifierInit /\ [][VerifierNext]_vars

\* send_par_request called with login_hint = username and main()'s client_id,
\* redirect_uri and scope
CallSendParRequest ==
    /\ pc = "call_par"
    /\ \E resp \in ParResponses :
          LET r == send_par_request(par_endpoint, code_challenge, oauth_state, username,
                                    ClientId(app_url), RedirectUri(app_url), Scope, resp)
          IN
          /\ net' = net \o r.io
          /\ request_uri' = Keep(request_uri, r.exc, r.ret[1])
          /\ expires_in' = Keep(expires_in, r.exc, r.ret[2])
          /\ exc' = r.exc
          /\ pc' = IF r.exc # "" THEN "raised" ELSE "returned"
    /\ UNCHANGED <<result, username, app_url, user_did, did_document, pds_url, pds_metadata,
                   auth_servers, auth_metadata, auth_endpoint, token_endpoint, par_endpoint,
                   oauth_state, code_verifier, code_challenge, auth_url, length, drawn>>

ParEndpointArgs == { None, Str(<<>>), ParEp, As2 }

ParInit ==
    /\ pc = "call_par"
    /\ result = "running"
    /\ exc = ""
    /\ par_endpoint \in ParEndpointArgs
    /\ code_challenge \in { generate_code_challenge(Rand("b64url", VerifierDefaultLen, s)) : s \in Seeds }
    /\ oauth_state \in { Rand("hex", 2 * StateBytes, s) : s \in Seeds }
    /\ username \in { None, Str(UAlice) }
    /\ app_url \in AppUrls
    /\ user_did = Unset /\ did_document = Unset /\ pds_url = Unset
    /\ pds_metadata = Unset /\ auth_servers = Unset /\ auth_metadata = Unset
    /\ auth_endpoint = Unset /\ token_endpoint = Unset
    /\ code_verifier = Unset
    /\ request_uri = Unset /\ expires_in = Unset /\ auth_url = Unset
    /\ length = VerifierDefaultLen
    /\ drawn = 0
    /\ net = <<>>

ParNext == CallSendParRequest

ParSpec == ParInit /\ [][ParNext]_vars

----------------------------------------------------------------------------
(* Properties *)

IsBy(x, name) == x.req.by = name
ByResolve(x) == IsBy(x, "resolve_identity")
ByDidDocument(x) == IsBy(x, "get_did_document")
ByPdsMetadata(x) == IsBy(x, "get_pds_metadata")
ByAuthServer(x) == IsBy(x, "get_auth_server_metadata")
ByPar(x) == IsBy(x, "send_par_request")

\* the place of a component in the order 4.1, 4.2, 4.3, 4.5, 4.7
StepRank(name) ==
    CASE name = "resolve_identity" -> 1
      [] name = "get_did_document" -> 2
      [] name = "get_pds_metadata" -> 3
      [] name = "get_auth_server_metadata" -> 4
      [] name = "send_par_request" -> 5

IsSet(x) == x # Unset

\* main() has returned False and no request of a step after step k was made
AbortedAfter(k) ==
    /\ pc = "done"
    /\ result = "False"
    /\ \A i \in 1..Len(net) : StepRank(net[i].req.by) <= k

\* C1: once a step of 4.1-4.5 has yielded a "not found"/none (falsy) result,
\* main() has returned failure and the request log holds no request of any
\* later step, the PAR POST included. The log only grows, so this holding in
\* every reachable state means no later request is ever issued.
C1_FailFast ==
    /\ (IsSet(user_did) /\ ~Truthy(user_did)) => AbortedAfter(1)
    /\ (IsSet(did_document) /\ (~Truthy(did_document) \/ ~Truthy(pds_url))) => AbortedAfter(2)
    /\ (IsSet(pds_metadata) /\ ~Truthy(pds_metadata)) => AbortedAfter(3)
    /\ (IsSet(auth_servers) /\ ~Truthy(auth_servers)) => AbortedAfter(3)
    /\ (IsSet(auth_metadata) /\ ~Truthy(auth_metadata)) => AbortedAfter(4)

\* C1 witness: the flow got as far as the authorization servers, every
\* candidate was asked and none qualified
C1_Witness ==
    /\ auth_metadata = None
    /\ result = "False"
    /\ Len(SelectSeq(net, ByAuthServer)) = MaxServers

Terminated == pc \in {"done", "raised"}

EveryStepSucceeded ==
    /\ Truthy(user_did) /\ Truthy(did_document) /\ Truthy(pds_url)
    /\ Truthy(pds_metadata) /\ Truthy(auth_servers) /\ Truthy(auth_metadata)
    /\ Truthy(par_endpoint)
    /\ Truthy(request_uri)

\* C2: when main() has ended, it reported success if every step 4.1-4.5
\* produced a result, a PAR endpoint was discovered and the PAR request
\* returned a request_uri, and it reported failure in every other case.
C2_SuccessIffEveryStep ==
    Terminated => IF EveryStepSucceeded THEN result = "True" ELSE result = "False"

\* What remains of C2 when main() returns: its verdict is True exactly when
\* every step succeeded. Holds; C2 fails only where an exception ended main().
ReturnedVerdictIsExact ==
    pc = "done" => IF EveryStepSucceeded THEN result = "True" ELSE result = "False"

\* the response carries metadata with both required endpoints
Qualifies(resp) ==
    /\ IsSuccess(resp.status)
    /\ resp.body.t = "dict"
    /\ \A k \in {"authorization_endpoint", "token_endpoint"} :
          k \in DOMAIN resp.body.fields /\ resp.body.fields[k] \notin {None, Str(<<>>)}

AuthServerExchanges == SelectSeq(net, ByAuthServer)

\* C3: the candidates are asked strictly in list order, each at its own URL,
\* and none after one that qualified; when get_auth_server_metadata has
\* returned, it returned the metadata and endpoints of the first candidate
\* whose response has both required endpoints (PAR endpoint none when
\* absent), and the all-none tuple exactly when every candidate was asked and
\* none qualified.
C3_FirstQualifyingCandidate ==
    LET asked == AuthServerExchanges
        n == Len(asked)
    IN
    /\ \A j \in 1..n :
          /\ asked[j].req.idx = j
          /\ j <= Len(auth_servers.items)
          /\ asked[j].req.url = Flat(AuthServerUrl(auth_servers.items[j]))
          /\ j < n => ~Qualifies(asked[j].resp)
    /\ IsSet(auth_metadata) =>
          IF n >= 1 /\ Qualifies(asked[n].resp)
          THEN /\ auth_metadata = asked[n].resp.body
               /\ auth_endpoint = asked[n].resp.body.fields["authorization_endpoint"]
               /\ token_endpoint = asked[n].resp.body.fields["token_endpoint"]
               /\ par_endpoint =
                     IF "pushed_authorization_request_endpoint" \in DOMAIN asked[n].resp.body.fields
                     THEN asked[n].resp.body.fields["pushed_authorization_request_endpoint"]
                     ELSE None
          ELSE /\ n = Len(auth_servers.items)
               /\ auth_metadata = None /\ auth_endpoint = None
               /\ token_endpoint = None /\ par_endpoint = None

\* C3 witness: the first candidate answered HTTP 500, the second one was
\* accepted, without a PAR endpoint
C3_Witness ==
    /\ Len(AuthServerExchanges) = 2
    /\ AuthServerExchanges[1].resp.status = 500
    /\ IsSet(auth_metadata) /\ auth_metadata = AuthServerExchanges[2].resp.body
    /\ par_endpoint = None

\* C4: generate_code_verifier(length) returns a string of exactly `length`
\* characters for every length in [43,128], and raises ValueError, having
\* drawn no random bytes, for every length outside that range.
C4_VerifierLength ==
    pc \in {"returned", "raised"} =>
        IF length >= 43 /\ length <= 128
        THEN pc = "returned" /\ code_verifier.r.len = length
        ELSE pc = "raised" /\ exc = "ValueError" /\ drawn = 0

\* What remains of C4: in range, a length that is not 1 modulo 4 gives exactly
\* that many characters and the others one fewer; out of range, ValueError
\* before any draw. Holds.
VerifierLengthAsComputed ==
    pc \in {"returned", "raised"} =>
        IF length >= 43 /\ length <= 128
        THEN /\ pc = "returned"
             /\ code_verifier.r.len = IF length % 4 = 1 THEN length - 1 ELSE length
        ELSE pc = "raised" /\ exc = "ValueError" /\ drawn = 0

\* the response is a transport failure, a non-2xx status, a body that is not
\* valid JSON, or valid JSON that is no object or lacks the field
FailureKind(resp, field) ==
    \/ FetchError(resp) # ""
    \/ resp.body.t # "dict"
    \/ field \notin DOMAIN resp.body.fields

\* C5: no exception propagates out of a network component, and a component
\* whose response is a transport failure, a non-2xx status, invalid JSON, or
\* JSON of the wrong shape or without the required field yields its "no
\* result" value (for the PDS fetcher: no server list is extracted; for the
\* authorization-server fetcher: the all-none tuple when every candidate
\* answered that way).
C5_NoExceptionPropagates ==
    /\ exc = ""
    /\ pc # "raised"
    /\ \A i \in 1..Len(net) :
          LET x == net[i] IN
          /\ (ByResolve(x) /\ FailureKind(x.resp, "did")) => user_did = None
          /\ (ByDidDocument(x) /\ FailureKind(x.resp, "service")) => pds_url = None
          /\ (ByPdsMetadata(x) /\ FailureKind(x.resp, "authorization_servers")) =>
                (~Truthy(pds_metadata) \/ pc = "extract" \/ auth_servers = None)
          /\ (ByPar(x) /\ FailureKind(x.resp, "request_uri")) =>
                (request_uri = None /\ expires_in = None)
    /\ (/\ AuthServerExchanges # <<>>
        /\ Len(AuthServerExchanges) = Len(auth_servers.items)
        /\ \A j \in 1..Len(AuthServerExchanges) :
              FailureKind(AuthServerExchanges[j].resp, "authorization_endpoint"))
       => auth_metadata = None

ResolveRequested == SelectSeq(net, ByResolve) # <<>>

\* C6: resolve_identity issues its HTTP request only for a username that
\* matches the Handle grammar (the whole string, anchored); for every other
\* username it makes no request and returns the username unchanged if the
\* username matches the DID grammar, and None if it matches neither grammar.
C6_RequestOnlyForHandle ==
    /\ ResolveRequested => HandlePattern(username.toks)
    /\ (IsSet(user_did) /\ ~HandlePattern(username.toks)) =>
          /\ ~ResolveRequested
          /\ DidPattern(username.toks) => user_did = username
          /\ ~DidPattern(username.toks) => user_did = None

\* What remains of C6 for usernames that do not end in a newline. Holds.
RequestOnlyForHandleWithoutNewline ==
    username.toks[Len(username.toks)] # "\n" => C6_RequestOnlyForHandle

\* the kinds of failure C7 names: an HTTP error status (error body parseable
\* or not), a transport error, an unparseable body, a JSON object without
\* request_uri
ParListedFailure(resp) ==
    \/ FetchError(resp) # ""
    \/ resp.body.t = "dict" /\ "request_uri" \notin DOMAIN resp.body.fields

\* C7: send_par_request returns a request_uri other than None only when its
\* POST got a 2xx response whose JSON object holds request_uri, and then
\* returns that value with expires_in passed through (None when absent); on
\* an HTTP error status, a transport error, an unparseable body or a missing
\* request_uri it returns (None, None) and raises nothing; with an empty or
\* None par_endpoint it returns (None, None) and issues no POST.
C7_ParResult ==
    pc \in {"returned", "raised"} =>
        /\ Len(net) <= 1
        /\ (IsSet(request_uri) /\ request_uri # None) =>
              /\ Len(net) = 1
              /\ net[1].req.method = "POST"
              /\ IsSuccess(net[1].resp.status)
              /\ net[1].resp.body.t = "dict"
              /\ "request_uri" \in DOMAIN net[1].resp.body.fields
              /\ request_uri = net[1].resp.body.fields["request_uri"]
              /\ expires_in = IF "expires_in" \in DOMAIN net[1].resp.body.fields
                              THEN net[1].resp.body.fields["expires_in"] ELSE None
        /\ (Len(net) = 1 /\ ParListedFailure(net[1].resp)) =>
              pc = "returned" /\ request_uri = None /\ expires_in = None
        /\ par_endpoint \in {None, Str(<<>>)} =>
              net = <<>> /\ pc = "returned" /\ request_uri = None /\ expires_in = None

\* C7 witness: the PAR endpoint answered HTTP 400 with a JSON error body and
\* the call returned (None, None)
C7_Witness ==
    /\ pc = "returned"
    /\ Len(net) = 1
    /\ net[1].resp = Response(400, ErrorBody)
    /\ request_uri = None /\ expires_in = None

\* C8: on a successful flow the authorization URL is exactly
\* {authEndpoint}?client_id={fixed client metadata URL}&request_uri={requestURI}
\* with nothing else between or inside its parts.
C8_AuthUrlExact ==
    result = "True" =>
        Flat(auth_url.toks) = Fmt(auth_endpoint) \o "?client_id=" \o FixedClientMetadataUrl
                             \o "&request_uri=" \o Fmt(request_uri)

\* the serviceEndpoint of the first service entry of a DID document, None
\* when there is no service list, no first entry, or no endpoint in it
FirstEntryEndpoint(doc) ==
    IF /\ doc.t = "dict"
       /\ "service" \in DOMAIN doc.fields
       /\ doc.fields["service"].t = "list"
       /\ Len(doc.fields["service"].items) >= 1
       /\ doc.fields["service"].items[1].t = "dict"
       /\ "serviceEndpoint" \in DOMAIN doc.fields["service"].items[1].fields
       /\ doc.fields["service"].items[1].fields["serviceEndpoint"] # Str(<<>>)
    THEN doc.fields["service"].items[1].fields["serviceEndpoint"]
    ELSE None

DidDocumentExchanges == SelectSeq(net, ByDidDocument)

\* C9: when get_did_document has returned: after a failed fetch (404, 410,
\* other HTTP error, transport error, JSON parse error) it returned (None,
\* None); after a successful fetch it returned the document and, as PDS URL,
\* the serviceEndpoint of the first service entry whatever the later entries
\* are, None when the list is absent or empty or the first entry has no
\* endpoint; a PDS URL is never returned with a None document; and with a
\* None PDS URL main() has returned failure and made no PDS-metadata request.
C9_DidDocumentResult ==
    IsSet(did_document) =>
        /\ Len(DidDocumentExchanges) = 1
        /\ LET resp == DidDocumentExchanges[1].resp IN
           IF FetchError(resp) # ""
           THEN did_document = None /\ pds_url = None
           ELSE did_document = resp.body /\ pds_url = FirstEntryEndpoint(resp.body)
        /\ pds_url # None => did_document # None
        /\ pds_url = None =>
              /\ pc = "done" /\ result = "False"
              /\ SelectSeq(net, ByPdsMetadata) = <<>>

\* C9 witness: a document with two service entries, and the PDS URL is the
\* first entry's endpoint
C9_Witness ==
    /\ IsSet(did_document) /\ did_document.t = "dict"
    /\ "service" \in DOMAIN did_document.fields
    /\ did_document.fields["service"] = List(<<Svc(Pds2), Svc(Pds1)>>)
    /\ pds_url = Pds2

Count(test(_)) == Len(SelectSeq(net, test))

\* C10: in any run of the flow the handle-resolution GET, the DID-document
\* GET, the PDS-metadata GET and the PAR POST are each issued at most once,
\* and each position of the authorization-server list is requested at most
\* once.
C10_NoRetries ==
    /\ Count(ByResolve) <= 1
    /\ Count(ByDidDocument) <= 1
    /\ Count(ByPdsMetadata) <= 1
    /\ Count(ByPar) <= 1
    /\ \A i, j \in 1..Len(net) :
          (ByAuthServer(net[i]) /\ ByAuthServer(net[j]) /\ net[i].req.idx = net[j].req.idx)
             => i = j

\* C10 witness: a run in which every request failed that could fail without
\* ending the flow: two candidates asked, the first in error, and the PAR
\* POST answered with an error
C10_Witness ==
    /\ pc = "done"
    /\ Count(ByResolve) = 1 /\ Count(ByDidDocument) = 1 /\ Count(ByPdsMetadata) = 1
    /\ Count(ByAuthServer) = 2 /\ Count(ByPar) = 1
    /\ FetchError(AuthServerExchanges[1].resp) # ""
    /\ FetchError(net[Len(net)].resp) # ""

----------------------------------------------------------------------------
(* PKCE binding *)

\* the fields of a form whose values come from main()'s variables
FormValueKeys(form) == DOMAIN form.params \ {"response_type", "code_challenge_method"}

\* the request carries the value v in its form data
Carries(req, v) ==
    /\ req.data.t = "form"
    /\ \E k \in FormValueKeys(req.data) : req.data.params[k] = v

ParPosted == Count(ByPar) > 0

\* state, code_verifier and code_challenge are the values of this run:
\* each one assigned, from the two draws this run made of secrets.token_*
GeneratedInThisFlow ==
    /\ IsSet(oauth_state) /\ oauth_state.t = "rand" /\ oauth_state.r.kind = "hex"
    /\ IsSet(code_verifier) /\ code_verifier.t = "rand" /\ code_verifier.r.kind = "b64url"
    /\ IsSet(code_challenge)
    /\ drawn = 2

\* what holds of every state of a flow
PkceBindingState ==
    /\ (IsSet(oauth_state) \/ IsSet(code_verifier) \/ IsSet(code_challenge))
          => (Truthy(auth_metadata) /\ Count(ByAuthServer) > 0 /\ drawn > 0)
    /\ ParPosted => GeneratedInThisFlow
    /\ \A i \in 1..Len(net) :
          /\ ByPar(net[i]) =>
                /\ net[i].req.method = "POST"
                /\ net[i].req.data.t = "form"
                /\ net[i].req.data.params["code_challenge"] =
                      generate_code_challenge(code_verifier)
                /\ net[i].req.data.params["code_challenge_method"] = "S256"
                /\ net[i].req.data.params["state"] = oauth_state
          /\ IsSet(code_verifier) => ~Carries(net[i].req, code_verifier)

\* what holds of every step of a flow: a step that assigns state, verifier
\* or challenge is taken with the authorization-server metadata in hand and
\* leaves a log without a PAR POST; a step that posts leaves the three as
\* they were
PkceBindingStep ==
    /\ (oauth_state' # oauth_state \/ code_verifier' # code_verifier
          \/ code_challenge' # code_challenge)
          => (Truthy(auth_metadata) /\ Len(SelectSeq(net', ByPar)) = 0)
    /\ Len(SelectSeq(net', ByPar)) > Len(SelectSeq(net, ByPar))
          => /\ GeneratedInThisFlow
             /\ UNCHANGED <<oauth_state, code_verifier, code_challenge, drawn>>

\* C11: in every flow that sends a PAR POST, state, code_verifier and
\* code_challenge were generated in that same flow, after the
\* authorization-server metadata was obtained and before the POST; the POST
\* carries code_challenge = generate_code_challenge(the flow's verifier),
\* code_challenge_method = S256 and the flow's state; and no request of the
\* flow, the POST included, carries the code_verifier.
C11_PkceBinding == []PkceBindingState /\ [][PkceBindingStep]_vars

\* C11 witness: the PAR POST of a flow has been sent with a login_hint, and
\* the flow has ended with the authorization URL built
C11_Witness ==
    /\ ParPosted
    /\ GeneratedInThisFlow
    /\ code_verifier.r.len = VerifierDefaultLen
    /\ "login_hint" \in DOMAIN net[Len(net)].req.data.params
    /\ net[Len(net)].req.data.params["code_challenge"] = code_challenge
    /\ result = "True"
    /\ IsSet(auth_url)

====
